---- MODULE Spec2Model ----
(***************************************************************************)
(* Account cache and resource-state pollers of the wallet front-end.       *)
(*                                                                         *)
(*   src/src/stores/account-provider.ts  loadAccount, storeAccount         *)
(*   src/unnamed/part_001                sampleAccountResponse,            *)
(*                                       statePowerUp, stateREX,           *)
(*                                       syncTokenBalances, fetchBalances  *)
(*                                                                         *)
(* Every await of the source is a point where other handlers may run, so   *)
(* every stretch of code between two awaits is one action.                 *)
(***************************************************************************)
EXTENDS Integers, Sequences, FiniteSets, TLC

VARIABLES
    now,        \* Date.now(), in ms
    db,         \* the 'account-cache' object store: key -> row
    calls,      \* the loadAccount calls made so far, in the order they were made
    reqs,       \* the get_account requests issued so far, in the order of issue
    timers,     \* the interval timers created by setInterval, in the order of creation
    running,    \* per store: the timer of its current subscription, 0 when stopped
    interval,   \* part_001:299  let interval: the timer syncTokenBalances set last
    subscribed, \* whether accountProvider is subscribed to activeSession
    polls,      \* the invocations of the pollers' fetch routines, in order
    published,  \* the values of the stores statePowerUp and stateREX
    sampleValue,    \* the value of the store sampleAccountResponse
    accountStores,  \* the stores getAccount has returned, in the order of the calls
    tokensData, \* the value of the store tokensData
    session,    \* the value of the store activeSession
    msToRent,   \* part_001:102  the value of the store msToRent
    pricedState,    \* the value of statePowerUp the price stores were derived from
    powerupPrice,   \* the value of the store powerupPrice, in units of 0.0001 EOS
    powerupPrice2,  \* the value of the store powerupPrice2, in units of 0.0001 EOS
    tokens,     \* data-syncers.ts:74  the value of the store tokens
    tickers,    \* the subscriptions to price tickers made by loadTokenPrices
    unsubscribePrices,  \* data-syncers.ts:82: the loadTokenPrices call whose
                        \* unsubscriber the variable holds, 0 when undefined
    accountProvider,    \* the value of the store accountProvider
    lookups,    \* the invocations of updateAccount's callback: pending while they
                \* await fetchBalance, set once they have set accountProvider
    isLoading,  \* the value of the store isLoading
    currentAccount,     \* the value of the store currentAccount
    currentRun, \* currentAccount's subscription and the run of its callback
    feeLoops,   \* the syncTxFee loops started, in the order of the calls
    feeFetches, \* the fetchFee calls made, in order
    txFees      \* the fee txFees holds for the chain, 0 when none

cacheVars == <<now, db, calls, reqs>>
timerVars == <<timers, running, interval, subscribed>>
pollVars == <<polls, published, tokensData, session>>
powerVars == <<msToRent, pricedState, powerupPrice, powerupPrice2>>
tokenVars == <<tokens, tickers>>
priceVars == <<powerVars, tokenVars>>
subsVars == <<unsubscribePrices>>
providerVars == <<accountProvider, lookups, isLoading>>
currentVars == <<currentAccount, currentRun>>
feeVars == <<feeLoops, feeFetches, txFees>>
lateVars == <<subsVars, providerVars, currentVars, feeVars>>
vars == <<now, db, calls, reqs, timers, running, interval, subscribed, polls,
          published, sampleValue, accountStores, tokensData, session, priceVars,
          lateVars>>

(***************************************************************************)
(* Bounds of the model.                                                    *)
(***************************************************************************)
\* loadAccount calls made in one behaviour
MaxCalls == 2
\* invocations of the fetch routines of the four pollers made in one behaviour
MaxPolls == 2
\* invocations of getPowerUpState and getREXState made in one behaviour
MaxPoolPolls == 3
\* fetches issued by the four stores with a timer in one behaviour
MaxStorePolls == 2
\* calls of loadTokenPrices that subscribe to a price ticker in one behaviour
MaxPriceCalls == 2
MaxFeeLoops == 1
MaxFetches == 3

(***************************************************************************)
(* Program constants.                                                      *)
(***************************************************************************)
\* account-provider.ts:12   const maxAge = 60 * 1000 // ms
maxAge == 60 * 1000

\* the chain the client is connected to, and the accounts that are looked up
ChainId == "aca3"
Names == {"alice", "teamgreymass"}

\* the instants at which the clock is observed: both sides of the maxAge limit
TimePoints == {0, 60000, 60001}

(***************************************************************************)
(* Account snapshots.  A typed snapshot (API.v1.AccountObject) carries its *)
(* name and, optionally, voter_info with two Float64 vote weights.  Its    *)
(* JSON form (Serializer.objectify) renders a Float64 as a decimal string. *)
(***************************************************************************)
Weights == {0, 5}
NoVoter == [absent |-> TRUE]
VoterInfos ==
    {NoVoter}
        \cup {[last_vote_weight |-> 0, proxied_vote_weight |-> 5]}

\* the snapshots get_account(name) may answer with
Accounts(name) ==
    {[account_name |-> name, voter_info |-> v] :
        v \in IF name = "alice" THEN VoterInfos ELSE {NoVoter}}
AllAccounts == UNION {Accounts(n) : n \in Names}

JUndefined == [t |-> "undefined", s |-> ""]
JString(str) == [t |-> "string", s |-> str]

\* Float64.toJSON(): the number as a string
FloatToJSON(n) == JString(ToString(n))

\* Float64.from(json): the number a string spells; no number for a missing field
DecodeError == 0 - 1
FloatFrom(j) ==
    IF j.t = "string" /\ (\E n \in Weights : ToString(n) = j.s)
    THEN CHOOSE n \in Weights : ToString(n) = j.s
    ELSE DecodeError

\* account-provider.ts:92   Serializer.objectify(account)
Objectify(a) ==
    [account_name |-> a.account_name,
     voter_info |->
        IF a.voter_info = NoVoter
        THEN NoVoter
        ELSE [last_vote_weight |-> FloatToJSON(a.voter_info.last_vote_weight),
              proxied_vote_weight |-> FloatToJSON(a.voter_info.proxied_vote_weight)]]

\* account-provider.ts:122  API.v1.AccountObject.from(row.account)
AccountFrom(j) ==
    [account_name |-> j.account_name,
     voter_info |->
        IF j.voter_info = NoVoter
        THEN NoVoter
        ELSE [last_vote_weight |-> FloatFrom(j.voter_info.last_vote_weight),
              proxied_vote_weight |-> FloatFrom(j.voter_info.proxied_vote_weight)]]

\* JavaScript's !x on a JSON field: a missing field and the empty string are falsy
Falsy(j) == j.t = "undefined" \/ (j.t = "string" /\ j.s = "")

\* a mutant of PatchVoterInfo: the weights are reset whatever the row holds
PatchVoterInfoAlways(j) ==
    IF j.voter_info # NoVoter
    THEN [j EXCEPT !.voter_info =
            [last_vote_weight |-> JString("0"), proxied_vote_weight |-> JString("0")]]
    ELSE j

\* account-provider.ts:114-121: vote weights missing from the row become '0'
PatchVoterInfo(j) ==
    IF j.voter_info # NoVoter
    THEN [j EXCEPT !.voter_info =
            [last_vote_weight |->
                IF Falsy(@.last_vote_weight) THEN JString("0") ELSE @.last_vote_weight,
             proxied_vote_weight |->
                IF Falsy(@.proxied_vote_weight) THEN JString("0") ELSE @.proxied_vote_weight]]
    ELSE j

(***************************************************************************)
(* The persistent cache.                                                   *)
(***************************************************************************)
\* account-provider.ts:83-85
AccountKey(name, chainId) == chainId \o "-" \o name

Keys == {AccountKey(n, ChainId) : n \in Names}
NoRow == [absent |-> TRUE]

\* JavaScript's null, where an account is expected
Null == [null |-> TRUE]

\* activeSession holds null, or a session, which the model names by its actor
NoSession == "null"

\* a row written by a release whose voter_info had no vote weights (the rows
\* lines 112-121 exist for)
LegacyRow(name) ==
    [account |-> [account_name |-> name,
                  voter_info |-> [last_vote_weight |-> JUndefined,
                                  proxied_vote_weight |-> JUndefined]],
     updated |-> 0]

\* account-provider.ts:89-96: the row storeAccount puts
StoredRow(account, at) == [account |-> Objectify(account), updated |-> at]

(***************************************************************************)
(* loadAccount.                                                            *)
(***************************************************************************)
\* a mutant of IsStale: a record as old as maxAge counts as stale
IsStaleAtLimit(age) == age >= maxAge

\* account-provider.ts:111   stale = age > maxAge
IsStale(age) == age > maxAge

\* a mutant of NeedsFetch: the refresh argument is ignored
NeedsFetchIgnoringRefresh(stale, refresh) == stale

\* a mutant of NeedsFetch: every call fetches
NeedsFetchAlways(stale, refresh) == TRUE

\* account-provider.ts:124   if (stale || refresh)
NeedsFetch(stale, refresh) == stale \/ refresh

\* a mutant of CachedDelivery: the cached record is never handed to the callback
CachedDeliveryNone(row, stale) == <<>>

\* account-provider.ts:109,122: the callback invocations made for the row read
CachedDelivery(row, stale) ==
    IF row # NoRow
    THEN <<[account |-> AccountFrom(PatchVoterInfo(row.account)),
            stale |-> stale, from |-> "cache"]>>
    ELSE <<>>

\* a mutant of RequestFor: a call joins the request in flight for the same name
RequestForCoalesced(name) ==
    IF \E r \in 1..Len(reqs) : reqs[r].name = name /\ reqs[r].st = "inflight"
    THEN CHOOSE r \in 1..Len(reqs) : reqs[r].name = name /\ reqs[r].st = "inflight"
    ELSE Len(reqs) + 1

\* account-provider.ts:125: getClient(chainId).v1.chain.get_account(name) is a
\* request of its own, whatever is in flight
RequestFor(name) == Len(reqs) + 1

CallIds == 1..Len(calls)

\* part_001:27,30: the callback of the calls sampleAccountResponse makes is
\* (v) => set(v); what the callback of another caller does is the caller's business
SetBy(owner, delivered, old) ==
    IF owner = "sample" /\ delivered # <<>>
    THEN [account |-> delivered[Len(delivered)].account,
          stale |-> delivered[Len(delivered)].stale]
    ELSE old

\* account-provider.ts:137-138: the callback of the call getAccount makes is
\* store.set; the store of call c takes the last value delivered
StoreSet(c, delivered, stores) ==
    [s \in DOMAIN stores |->
        IF stores[s].call = c /\ delivered # <<>>
        THEN [stores[s] EXCEPT !.value =
                [account |-> delivered[Len(delivered)].account,
                 stale |-> delivered[Len(delivered)].stale]]
        ELSE stores[s]]

\* whether the account delivered has a core_liquid_balance: either, for a call of
\* updateAccount, whose callback looks at it
LiquidBalances(owner) == IF owner = "provider" THEN BOOLEAN ELSE {TRUE}

\* account-provider.ts:47-57: the callback of updateAccount is invoked with v; it
\* sets accountProvider at once when v.account has a core_liquid_balance, and
\* otherwise awaits fetchBalance first
ProviderDeliver(c, delivered, bal) ==
    IF calls[c].owner = "provider" /\ delivered # <<>>
    THEN LET v == delivered[Len(delivered)]
             value == [account |-> v.account, stale |-> v.stale]
         IN  /\ lookups' = Append(lookups,
                    [call |-> c, from |-> v.from, value |-> value,
                     st |-> IF bal THEN "set" ELSE "pending"])
             /\ accountProvider' = IF bal THEN value ELSE accountProvider
    ELSE UNCHANGED <<accountProvider, lookups>>

\* a mutant of CurrentDeliver: the callback sets the store whether or not its
\* run is the active one
CurrentDeliverAlways(c, delivered, old) ==
    IF calls[c].owner = "current" /\ delivered # <<>>
    THEN delivered[Len(delivered)].account
    ELSE old

\* part_000:203-207: the callback of currentAccount's loadAccount call:
\* if (active) set(v.account || null)
CurrentDeliver(c, delivered, old) ==
    IF calls[c].owner = "current" /\ delivered # <<>> /\ currentRun.call = c
    THEN delivered[Len(delivered)].account
    ELSE old

\* a call: its arguments, where it stands, and what it has seen and done:
\*   cached, age   the account of the row db.get answered with and the age computed
\*   req, fetched  the get_account request it issued and the snapshot that answered
\*   cbs           the invocations of its callback, in order
\*   owner         who made the call, which decides what its callback does
\*   after         whether, when it was made, a call for the same name had already
\*                 completed with a successful fetch
NoAge == 0 - 1
NewCall(name, refresh, owner) ==
    [name |-> name, refresh |-> refresh, owner |-> owner, pc |-> "get",
     cached |-> NoRow, age |-> NoAge, req |-> 0, fetched |-> NoRow, cbs |-> <<>>,
     after |-> \E c \in CallIds : /\ calls[c].name = name
                                  /\ calls[c].pc = "done"
                                  /\ calls[c].fetched # NoRow]

\* account-provider.ts:99-107: a caller calls loadAccount(name, chainId, set, refresh);
\* the call runs up to its await of db.get
LoadAccount(name, refresh) ==
    /\ Len(calls) < MaxCalls
    /\ calls' = Append(calls, NewCall(name, refresh, "caller"))
    /\ UNCHANGED <<lateVars, priceVars, accountStores, now, db, reqs, timerVars, pollVars, sampleValue>>

\* account-provider.ts:132-143: getAccount(name, chainId, refresh) makes a store
\* holding {stale: true}, calls loadAccount with store.set as the callback and
\* returns the store
GetAccount(name, refresh) ==
    /\ Len(calls) < MaxCalls
    /\ calls' = Append(calls, NewCall(name, refresh, "getAccount"))
    /\ accountStores' = Append(accountStores,
                               [call |-> Len(calls) + 1, value |-> [stale |-> TRUE]])
    /\ UNCHANGED <<lateVars, priceVars, now, db, reqs, timerVars, pollVars, sampleValue>>

\* a mutant of WithError: the store is reset to a value holding the error alone
WithErrorOnly(value, error) == [stale |-> TRUE, error |-> error]

\* {...account, error}: the fields of the value and the field error
WithError(value, error) ==
    [f \in DOMAIN value \cup {"error"} |-> IF f = "error" THEN error ELSE value[f]]

\* account-provider.ts:138-141: the promise of loadAccount has rejected and the
\* catch handler runs: store.update((account) => ({...account, error}))
GetAccountCatch(c) ==
    /\ calls[c].pc = "rejected"
    /\ calls[c].owner = "getAccount"
    /\ calls' = [calls EXCEPT ![c].pc = "caught"]
    /\ accountStores' =
          [s \in DOMAIN accountStores |->
              IF accountStores[s].call = c
              THEN [accountStores[s] EXCEPT !.value = WithError(@, "rejected")]
              ELSE accountStores[s]]
    /\ UNCHANGED <<lateVars, priceVars, now, db, reqs, timerVars, pollVars, sampleValue>>

\* account-provider.ts:107-125: db.get answers with the row and the call resumes:
\* it computes stale, hands the cached record to the callback and issues get_account
\* when needed
LoadDecide(c) ==
    /\ calls[c].pc = "get"
    /\ LET row == db[AccountKey(calls[c].name, ChainId)]
           stale == IF row # NoRow THEN IsStale(now - row.updated) ELSE TRUE
           fetch == NeedsFetch(stale, calls[c].refresh)
           r == RequestFor(calls[c].name)
       IN  /\ calls' = [calls EXCEPT
                  ![c].cached = IF row # NoRow THEN row.account ELSE NoRow,
                  ![c].age = IF row # NoRow THEN now - row.updated ELSE NoAge,
                  ![c].cbs = @ \o CachedDelivery(row, stale),
                  ![c].req = IF fetch THEN r ELSE 0,
                  ![c].pc = IF fetch THEN "fetching" ELSE "done"]
           /\ reqs' = IF fetch /\ r > Len(reqs)
                      THEN Append(reqs, [name |-> calls[c].name, st |-> "inflight",
                                         by |-> c])
                      ELSE reqs
           /\ sampleValue' = SetBy(calls[c].owner, CachedDelivery(row, stale), sampleValue)
           /\ accountStores' = StoreSet(c, CachedDelivery(row, stale), accountStores)
           /\ \E bal \in LiquidBalances(calls[c].owner) :
                 ProviderDeliver(c, CachedDelivery(row, stale), bal)
           /\ currentAccount' = CurrentDeliver(c, CachedDelivery(row, stale), currentAccount)
    /\ UNCHANGED <<subsVars, isLoading, currentRun, feeVars, priceVars, now, db, timerVars,
                   pollVars>>

\* account-provider.ts:125-126: get_account answers with a snapshot; every call
\* awaiting the request goes on into storeAccount, up to its await of db.put
NetOk(r, a) ==
    /\ reqs[r].st = "inflight"
    /\ a \in Accounts(reqs[r].name)
    /\ reqs' = [reqs EXCEPT ![r].st = "ok"]
    /\ calls' = [c \in CallIds |->
                    IF calls[c].pc = "fetching" /\ calls[c].req = r
                    THEN [calls[c] EXCEPT !.pc = "storing", !.fetched = a]
                    ELSE calls[c]]
    /\ UNCHANGED <<lateVars, priceVars, accountStores, now, db, timerVars, pollVars, sampleValue>>

\* a mutant of NetFail: the call issues get_account again
NetFailRetry(r) ==
    /\ reqs[r].st = "inflight"
    /\ reqs' = Append([reqs EXCEPT ![r].st = "failed"], [reqs[r] EXCEPT !.st = "inflight"])
    /\ calls' = [c \in CallIds |->
                    IF calls[c].pc = "fetching" /\ calls[c].req = r
                    THEN [calls[c] EXCEPT !.req = Len(reqs) + 1]
                    ELSE calls[c]]
    /\ UNCHANGED <<lateVars, priceVars, accountStores, now, db, timerVars, pollVars, sampleValue>>

\* account-provider.ts:125: get_account rejects; the await throws and the promise
\* of loadAccount rejects
NetFail(r) ==
    /\ reqs[r].st = "inflight"
    /\ reqs' = [reqs EXCEPT ![r].st = "failed"]
    /\ calls' = [c \in CallIds |->
                    IF calls[c].pc = "fetching" /\ calls[c].req = r
                    THEN [calls[c] EXCEPT !.pc = "rejected"]
                    ELSE calls[c]]
    /\ UNCHANGED <<lateVars, priceVars, accountStores, now, db, timerVars, pollVars, sampleValue>>

\* a mutant of StorePut: the fetched account is not persisted
StorePutNothing(c) ==
    /\ calls[c].pc = "storing"
    /\ calls' = [calls EXCEPT ![c].pc = "stored"]
    /\ UNCHANGED <<lateVars, priceVars, accountStores, now, db, reqs, timerVars, pollVars, sampleValue>>

\* account-provider.ts:87-97: storeAccount puts the row under the account's key
StorePut(c) ==
    /\ calls[c].pc = "storing"
    /\ LET a == calls[c].fetched
           row == StoredRow(a, now)
       IN  /\ db' = [db EXCEPT ![AccountKey(a.account_name, ChainId)] = row]
           /\ calls' = [calls EXCEPT ![c].pc = "stored"]
    /\ UNCHANGED <<lateVars, priceVars, accountStores, now, reqs, timerVars, pollVars, sampleValue>>

\* account-provider.ts:127: set({account: account, stale: false}), and the call ends
SetFresh(c) ==
    /\ calls[c].pc = "stored"
    /\ LET fresh == [account |-> calls[c].fetched, stale |-> FALSE, from |-> "network"]
       IN  /\ calls' = [calls EXCEPT ![c].cbs = Append(@, fresh), ![c].pc = "done"]
           /\ sampleValue' = SetBy(calls[c].owner, <<fresh>>, sampleValue)
           /\ accountStores' = StoreSet(c, <<fresh>>, accountStores)
           /\ \E bal \in LiquidBalances(calls[c].owner) :
                 ProviderDeliver(c, <<fresh>>, bal)
           /\ currentAccount' = CurrentDeliver(c, <<fresh>>, currentAccount)
    /\ UNCHANGED <<subsVars, isLoading, currentRun, feeVars, priceVars, now, db, reqs,
                   timerVars, pollVars>>

(***************************************************************************)
(* Interval timers and the clock.                                          *)
(***************************************************************************)
PoolPollers == {"powerup", "rex"}
StorePollers == PoolPollers \cup {"sample"}
Pollers == StorePollers \cup {"balances"}

\* accountProvider (account-provider.ts:20-40) is a store with a timer as well; it
\* fetches only while a session is active
TimedStores == StorePollers \cup {"account"}
TimedPollers == Pollers \cup {"account"}

\* part_001:31, 75, 256, 306 and account-provider.ts:27: the period of each
\* poller's setInterval
Interval(p) ==
    CASE p = "sample" -> 1000
      [] p = "account" -> 30000
      [] p = "powerup" -> 30000
      [] p = "rex" -> 30000
      [] p = "balances" -> 15 * 60 * 1000

\* timers[p] are the timers poller p created, in the order of creation
TimerIds(p) == 1..Len(timers[p])
ActiveTimers(p) == {t \in TimerIds(p) : timers[p][t].active}
Deadline(p, t) == timers[p][t].last + Interval(p)
Deadlines ==
    UNION {{Deadline(p, t) : t \in ActiveTimers(p)} : p \in TimedPollers}
        \cup {feeLoops[l].wake : l \in {k \in DOMAIN feeLoops : feeLoops[k].pc = "waiting"}}

\* setInterval(..., period): a timer that has not fired yet
NewTimer == [created |-> now, last |-> now, active |-> TRUE]

\* clearInterval(id); clearInterval(undefined) clears nothing
ClearInterval(p, id) ==
    [timers EXCEPT ![p] =
        [t \in TimerIds(p) |-> IF t = id THEN [timers[p][t] EXCEPT !.active = FALSE]
                                         ELSE timers[p][t]]]

\* the clock moves on, never past the instant at which a timer is due
AdvanceTime(t) ==
    /\ t > now
    /\ \A d \in Deadlines : t <= d
    /\ now' = t
    /\ UNCHANGED <<lateVars, priceVars, accountStores, db, calls, reqs, timerVars, pollVars, sampleValue>>

(***************************************************************************)
(* The pollers: statePowerUp, stateREX, sampleAccountResponse and          *)
(* syncTokenBalances.  Each invokes its fetch routine when it starts and   *)
(* on every tick of its interval timer.                                    *)
(***************************************************************************)
\* part_001:23
sampleAccountName == "teamgreymass"

\* results.rows[0] of get_table_rows: a snapshot of the pool, or undefined when the
\* table has no row
Undefined == "undefined"
Snapshots == {"s1", "s2"}

\* the response bodies of the balances API: a token list, or a body without one
NoTokens == [absent |-> TRUE]
Bodies ==
    {[tokens |-> <<>>],
     [tokens |-> <<[currency |-> "EOS", amount |-> 1]>>],
     [message |-> "account not found"]}

\* part_001:345-353
ParseTokens(list) ==
    [cur \in {list[i].currency : i \in 1..Len(list)} |->
        LET last == CHOOSE i \in 1..Len(list) :
                        /\ list[i].currency = cur
                        /\ \A j \in 1..Len(list) : list[j].currency = cur => j <= i
        IN  list[last]]

\* polls[p] are the invocations of the fetch routine of poller p, in order
PollIds(p) == 1..Len(polls[p])
PollCount == Len(polls["powerup"]) + Len(polls["rex"]) + Len(polls["sample"])
                + Len(polls["balances"]) + Len(polls["account"])

\* where the fetch of a poll stands; the fetch of sampleAccountResponse and of
\* accountProvider is a loadAccount call
PollStatus(p, i) ==
    IF p \in {"sample", "account"}
    THEN CASE calls[polls[p][i].call].pc = "done" -> "ok"
           [] calls[polls[p][i].call].pc = "rejected" -> "failed"
           [] OTHER -> "inflight"
    ELSE polls[p][i].st

\* the latest poll made for timer t of poller p
LastPollOf(p, t) ==
    CHOOSE i \in PollIds(p) :
        /\ polls[p][i].timer = t
        /\ \A j \in PollIds(p) : polls[p][j].timer = t => j <= i

\* one invocation of the fetch routine of poller p, for its timer t:
\*   part_001:62-70, 243-251  getPowerUpState, getREXState issue get_table_rows
\*   part_001:27, 30          loadAccount(sampleAccountName, chainId, (v) => set(v))
\*   part_001:313-331         fetchBalances returns at once without a session,
\*                            and issues fetch(apiUrl) with one
\* trigger, prevAt and prevSt record what the poll followed: the instant of the
\* timer's previous invocation, and where that one's fetch stood; err records what
\* went wrong in fetchBalances, if anything
Invoke(p, trigger, t) ==
    /\ p = "sample" => Len(calls) < MaxCalls
    /\ polls' = [polls EXCEPT ![p] = Append(@,
          [trigger |-> trigger, timer |-> t, at |-> now,
           prevAt |-> IF trigger = "tick" THEN timers[p][t].last ELSE now,
           prevSt |-> IF trigger = "tick" THEN PollStatus(p, LastPollOf(p, t)) ELSE "none",
           st |-> CASE p = "sample" -> "call"
                    [] p = "balances" -> IF session # NoSession THEN "inflight"
                                         ELSE "nosession"
                    [] OTHER -> "inflight",
           call |-> IF p = "sample" THEN Len(calls) + 1 ELSE 0, err |-> "none",
           current |-> FALSE])]
    /\ calls' = IF p = "sample"
                THEN Append(calls, NewCall(sampleAccountName, FALSE, "sample"))
                ELSE calls

\* a mutant of Subscribe: the store waits for the first tick to fetch
SubscribeLazy(p) ==
    /\ running[p] = 0
    /\ timers' = [timers EXCEPT ![p] = Append(@, NewTimer)]
    /\ running' = [running EXCEPT ![p] = Len(timers[p]) + 1]
    /\ UNCHANGED <<lateVars, priceVars, accountStores, now, db, calls, reqs, interval, subscribed, pollVars, sampleValue>>

\* part_001:26-33, 73-75, 254-256: the store gets its first subscriber and runs its
\* start function: one invocation at once, then setInterval
Subscribe(p) ==
    /\ running[p] = 0
    /\ Invoke(p, "start", Len(timers[p]) + 1)
    /\ timers' = [timers EXCEPT ![p] = Append(@, NewTimer)]
    /\ running' = [running EXCEPT ![p] = Len(timers[p]) + 1]
    /\ UNCHANGED <<lateVars, priceVars, accountStores, now, db, reqs, interval, subscribed, published, sampleValue, tokensData,
                   session>>

\* a mutant of Unsubscribe: the stop function leaves the timer running
UnsubscribeKeepsTimer(p) ==
    /\ running[p] # 0
    /\ running' = [running EXCEPT ![p] = 0]
    /\ UNCHANGED <<lateVars, priceVars, accountStores, now, db, calls, reqs, timers, interval, subscribed, pollVars,
                   sampleValue>>

\* part_001:34-36, 76-78, 257-259: the last subscriber leaves and the stop function
\* clears the timer
Unsubscribe(p) ==
    /\ running[p] # 0
    /\ timers' = ClearInterval(p, running[p])
    /\ running' = [running EXCEPT ![p] = 0]
    /\ UNCHANGED <<lateVars, priceVars, accountStores, now, db, calls, reqs, interval, subscribed, pollVars, sampleValue>>

\* part_001:301-307
SyncTokenBalances ==
    /\ Invoke("balances", "start", Len(timers["balances"]) + 1)
    /\ timers' = [timers EXCEPT !["balances"] = Append(@, NewTimer)]
    /\ interval' = Len(timers["balances"]) + 1
    /\ UNCHANGED <<lateVars, priceVars, accountStores, now, db, reqs, running, subscribed, published, sampleValue, tokensData,
                   session>>

\* part_001:309-311
StopSyncTokenBalances ==
    /\ interval \in ActiveTimers("balances")
    /\ timers' = ClearInterval("balances", interval)
    /\ UNCHANGED <<lateVars, priceVars, accountStores, now, db, calls, reqs, running, interval, subscribed, pollVars,
                   sampleValue>>

\* part_001:30, 75, 256, 304-306: a timer is due and its callback runs
TimerFire(p, t) ==
    /\ t \in ActiveTimers(p)
    /\ now = Deadline(p, t)
    /\ Invoke(p, "tick", t)
    /\ timers' = [timers EXCEPT ![p][t].last = now]
    /\ UNCHANGED <<lateVars, priceVars, accountStores, now, db, reqs, running, interval, subscribed, published, sampleValue,
                   tokensData, session>>

\* part_001:70, 251: get_table_rows resolves and .then sets the store to rows[0];
\* current marks the fetch whose response the store holds
PoolOk(p, i, v) ==
    /\ polls[p][i].st = "inflight"
    /\ polls' = [polls EXCEPT ![p] =
          [k \in PollIds(p) |->
              [polls[p][k] EXCEPT !.st = IF k = i THEN "ok" ELSE @,
                                  !.current = (k = i)]]]
    /\ published' = [published EXCEPT ![p] = v]
    /\ UNCHANGED <<lateVars, priceVars, accountStores, now, db, calls, reqs, timerVars, sampleValue, tokensData, session>>

\* a mutant of PoolFail: the failure resets the store and stops the timer
PoolFailResets(p, i) ==
    /\ polls[p][i].st = "inflight"
    /\ polls' = [polls EXCEPT ![p][i].st = "failed"]
    /\ published' = [published EXCEPT ![p] = Undefined]
    /\ timers' = ClearInterval(p, polls[p][i].timer)
    /\ UNCHANGED <<lateVars, priceVars, accountStores, now, db, calls, reqs, running, interval, subscribed, sampleValue,
                   tokensData, session>>

\* part_001:63-70, 244-251: get_table_rows rejects; the promise has no handler for
\* that, so nothing runs
PoolFail(p, i) ==
    /\ polls[p][i].st = "inflight"
    /\ polls' = [polls EXCEPT ![p][i].st = "failed"]
    /\ UNCHANGED <<lateVars, priceVars, accountStores, now, db, calls, reqs, timerVars, published, sampleValue, tokensData,
                   session>>

\* part_001:331-335: fetch(apiUrl) resolves; fetchBalances awaits apiResponse.json()
BalFetchOk(i) ==
    /\ polls["balances"][i].st = "inflight"
    /\ polls' = [polls EXCEPT !["balances"][i].st = "parsing"]
    /\ UNCHANGED <<lateVars, priceVars, accountStores, now, db, calls, reqs, timerVars, published, sampleValue, tokensData,
                   session>>

\* part_001:331-335: fetch(apiUrl) rejects; the catch logs and yields undefined, and
\* apiResponse.json() then throws, which rejects the promise of fetchBalances
BalFetchFail(i) ==
    /\ polls["balances"][i].st = "inflight"
    /\ polls' = [polls EXCEPT !["balances"][i].st = "failed",
                              !["balances"][i].err = "network"]
    /\ UNCHANGED <<lateVars, priceVars, accountStores, now, db, calls, reqs, timerVars, published, sampleValue, tokensData,
                   session>>

\* part_001:335-342: the body parses; parseTokens(jsonBody.tokens) throws when the
\* body has no token list, else tokensData is set
BalJsonOk(i, body) ==
    /\ polls["balances"][i].st = "parsing"
    /\ IF "tokens" \in DOMAIN body
       THEN /\ polls' = [polls EXCEPT !["balances"][i].st = "ok"]
            /\ tokensData' = [map |-> ParseTokens(body.tokens)]
       ELSE /\ polls' = [polls EXCEPT !["balances"][i].st = "failed",
                                      !["balances"][i].err = "notokens"]
            /\ UNCHANGED tokensData
    /\ UNCHANGED <<lateVars, priceVars, accountStores, now, db, calls, reqs, timerVars, published, sampleValue, session>>

\* part_001:335-342: the body does not parse; the catch logs and yields undefined,
\* and jsonBody.tokens then throws, which rejects the promise of fetchBalances
BalJsonFail(i) ==
    /\ polls["balances"][i].st = "parsing"
    /\ polls' = [polls EXCEPT !["balances"][i].st = "failed",
                              !["balances"][i].err = "parse"]
    /\ UNCHANGED <<lateVars, priceVars, accountStores, now, db, calls, reqs, timerVars, published, sampleValue, tokensData,
                   session>>

\* the account of the session: session.auth.actor
sessionActor == "alice"

\* an invocation of updateAccount; its loadAccount call is the next one made
ProviderPoll(trigger, t) ==
    [trigger |-> trigger, timer |-> t, at |-> now, prevAt |-> now,
     prevSt |-> "none", st |-> "call", call |-> Len(calls) + 1, err |-> "none",
     current |-> FALSE]

\* the value a store holds after a run of set calls
LastWrite(writes) == writes[Len(writes)]

\* account-provider.ts:42-61: updateAccount(session.auth.actor, session.chainId)
\* sets isLoading, calls loadAccount without awaiting it, and resets isLoading
UpdateAccount(name, trigger, t) ==
    /\ Len(calls) < MaxCalls
    /\ isLoading' = LastWrite(<<TRUE, FALSE>>)
    /\ polls' = [polls EXCEPT !["account"] = Append(@, ProviderPoll(trigger, t))]
    /\ calls' = Append(calls, NewCall(name, FALSE, "provider"))

\* account-provider.ts:20-35: accountProvider gets its first subscriber and runs its
\* start function: setInterval, then activeSession.subscribe, which calls the
\* subscriber at once with the current session
ProviderStart ==
    /\ running["account"] = 0
    /\ timers' = [timers EXCEPT !["account"] = Append(@, NewTimer)]
    /\ running' = [running EXCEPT !["account"] = Len(timers["account"]) + 1]
    /\ subscribed' = TRUE
    /\ IF session # NoSession
       THEN UpdateAccount(session, "start", Len(timers["account"]) + 1)
       ELSE UNCHANGED <<calls, polls, isLoading>>
    /\ UNCHANGED <<subsVars, accountProvider, lookups, currentVars, feeVars, priceVars, accountStores, now, db, reqs, interval, published, sampleValue, tokensData, session>>

\* account-provider.ts:36-39: the last subscriber leaves and the stop function runs:
\* unsubscribe(), clearInterval(interval)
ProviderStop ==
    /\ running["account"] # 0
    /\ subscribed' = FALSE
    /\ timers' = ClearInterval("account", running["account"])
    /\ running' = [running EXCEPT !["account"] = 0]
    /\ UNCHANGED <<lateVars, priceVars, accountStores, now, db, calls, reqs, interval, pollVars, sampleValue>>

\* account-provider.ts:22-27: the timer of accountProvider is due; its callback
\* updates the account when there is a session
ProviderTick(t) ==
    /\ t \in ActiveTimers("account")
    /\ now = Deadline("account", t)
    /\ timers' = [timers EXCEPT !["account"][t].last = now]
    /\ IF session # NoSession
       THEN UpdateAccount(session, "tick", t)
       ELSE UNCHANGED <<calls, polls, isLoading>>
    /\ UNCHANGED <<subsVars, accountProvider, lookups, currentVars, feeVars, priceVars, accountStores, now, db, reqs, running, interval, subscribed, published, sampleValue,
                   tokensData, session>>

\* part_000:195-213: currentAccount's callback runs for the session: the run before
\* it is cleaned up (active = false); without a session the store is set to null,
\* with one loadAccount is called; c is the call it would make
CurrentRun(sess, c) ==
    /\ currentRun' = [subscribed |-> TRUE, call |-> IF sess # NoSession THEN c ELSE 0]
    /\ currentAccount' = IF sess # NoSession THEN currentAccount ELSE Null

\* part_000:195-213: currentAccount gets its first subscriber and its callback
\* runs for the session there is
CurrentSubscribe ==
    /\ ~currentRun.subscribed
    /\ session # NoSession => Len(calls) < MaxCalls
    /\ CurrentRun(session, Len(calls) + 1)
    /\ calls' = IF session # NoSession
                THEN Append(calls, NewCall(session, FALSE, "current"))
                ELSE calls
    /\ UNCHANGED <<subsVars, providerVars, feeVars, priceVars, accountStores, now, db,
                   reqs, timerVars, pollVars, sampleValue>>

\* part_000:208-210: the last subscriber leaves and the cleanup runs: active = false
CurrentUnsubscribe ==
    /\ currentRun.subscribed
    /\ currentRun' = [subscribed |-> FALSE, call |-> 0]
    /\ UNCHANGED <<subsVars, providerVars, currentAccount, feeVars, priceVars,
                   accountStores, now, db, calls, reqs, timerVars, pollVars, sampleValue>>

\* part_000:189, 195-213, account-provider.ts:30-34: the user logs in or out;
\* activeSession calls its subscribers: accountProvider's updates the account on a
\* login, and currentAccount's callback runs again
SetSession(b) ==
    /\ session # b
    /\ session' = b
    /\ LET upd == subscribed /\ b # NoSession
           cur == currentRun.subscribed /\ b # NoSession
           made == (IF upd THEN <<NewCall(b, FALSE, "provider")>> ELSE <<>>)
                      \o (IF cur THEN <<NewCall(b, FALSE, "current")>> ELSE <<>>)
       IN  /\ Len(calls) + Len(made) <= MaxCalls
           /\ calls' = calls \o made
           /\ polls' = IF upd
                        THEN [polls EXCEPT !["account"] =
                                Append(@, ProviderPoll("session", running["account"]))]
                        ELSE polls
           /\ isLoading' = IF upd THEN LastWrite(<<TRUE, FALSE>>) ELSE isLoading
           /\ IF currentRun.subscribed
              THEN CurrentRun(b, Len(calls) + Len(made))
              ELSE UNCHANGED currentVars
    /\ UNCHANGED <<subsVars, accountProvider, lookups, feeVars, priceVars, accountStores,
                   now, db, reqs, timerVars, published, sampleValue, tokensData>>

\* account-provider.ts:49-56: fetchBalance settles, with the assets or, its failure
\* caught, with nothing, and the callback goes on to accountProvider.set(v)
LookupDone(i) ==
    /\ lookups[i].st = "pending"
    /\ lookups' = [lookups EXCEPT ![i].st = "set"]
    /\ accountProvider' = lookups[i].value
    /\ UNCHANGED <<subsVars, isLoading, currentVars, feeVars, priceVars, accountStores,
                   now, db, calls, reqs, timerVars, pollVars, sampleValue>>

(***************************************************************************)
(* Exact arithmetic.  The price stores compute with JavaScript numbers;    *)
(* the model computes with fractions n/d in lowest terms, d > 0.           *)
(***************************************************************************)
RECURSIVE GCD(_, _)
GCD(a, b) == IF b = 0 THEN a ELSE GCD(b, a % b)

Abs(x) == IF x < 0 THEN 0 - x ELSE x

Rat(n, d) ==
    LET g == GCD(Abs(n), d)
    IN  [n |-> n \div g, d |-> d \div g]

RInt(k) == [n |-> k, d |-> 1]

RAdd(a, b) ==
    LET g == GCD(a.d, b.d)
    IN  Rat(a.n * (b.d \div g) + b.n * (a.d \div g), (a.d \div g) * b.d)

RNeg(a) == [n |-> 0 - a.n, d |-> a.d]
RSub(a, b) == RAdd(a, RNeg(b))

RMul(a, b) ==
    LET g1 == GCD(Abs(a.n), b.d)
        g2 == GCD(Abs(b.n), a.d)
    IN  Rat((a.n \div g1) * (b.n \div g2), (a.d \div g2) * (b.d \div g1))

\* a / b, for b # 0
RDiv(a, b) ==
    IF b.n > 0 THEN RMul(a, [n |-> b.d, d |-> b.n])
               ELSE RMul(a, [n |-> 0 - b.d, d |-> 0 - b.n])

RLess(a, b) == a.n * b.d < b.n * a.d
RLeq(a, b) == a.n * b.d <= b.n * a.d
RMin(a, b) == IF RLess(b, a) THEN b ELSE a
RMax(a, b) == IF RLess(a, b) THEN b ELSE a

\* Math.floor and Math.ceil
Floor(a) == a.n \div a.d
Ceil(a) == 0 - ((0 - a.n) \div a.d)

\* Math.pow(a, e) for a whole exponent e >= 0
RECURSIVE Pow(_, _)
Pow(a, e) == IF e = 0 THEN RInt(1) ELSE RMul(a, Pow(a, e - 1))

\* Math.exp(x), to two decimals, at the arguments the decay step is run with
MathExp(x) ==
    CASE x = RInt(0) -> RInt(1)
      [] x = Rat(0 - 1, 2) -> Rat(61, 100)
      [] x = RInt(0 - 1) -> Rat(37, 100)
      [] x = RInt(1) -> Rat(272, 100)

(***************************************************************************)
(* The PowerUp price stores powerupPrice2 and powerupPrice.                *)
(***************************************************************************)
\* part_001:14-21
mspb == 200
bps == 2
bpd == bps * 60 * 60 * 24
mspd == mspb * bpd

\* the value of statePowerUp before the first response
NoPowerUp == [absent |-> TRUE]

\* part_001:93-99: resourcesShifted, weight_ratio / resourcesShiftedREXTarget; the
\* model holds weight_ratio in units of resourcesShiftedREXTarget = 10^13
ResourcesShifted(st) == IF st # NoPowerUp THEN st.cpu.weight_ratio ELSE 0

\* part_001:121, 210: mspd * (1 - $resourcesShifted / 100)
MspdAvailable(shifted) == RMul(RInt(mspd), RSub(RInt(1), Rat(shifted, 100)))

\* Asset.value and Asset.units of a '4,EOS' asset held in units
AssetValue(units) == Rat(units, 10000)

\* a mutant of Clamp: the delta is taken as computed
ClampNone(delta, diff) == delta

\* part_001:135, 224: Math.min(Math.max(delta, 0), diff)
Clamp(delta, diff) == RMin(RMax(delta, RInt(0)), diff)

\* part_001:127-137: the adjusted utilization powerupPrice2 prices with
AdjustedUtilization2(cpu, t) ==
    IF cpu.utilization < cpu.adjusted_utilization
    THEN LET nowSecs == t \div 1000
             diff == cpu.adjusted_utilization - cpu.utilization
             delta == Floor(RMul(RInt(diff),
                        MathExp(Rat(0 - (nowSecs - cpu.utilization_timestamp),
                                    cpu.decay_secs))))
         IN  RAdd(RInt(cpu.utilization), Clamp(RInt(delta), RInt(diff)))
    ELSE RInt(cpu.adjusted_utilization)

\* part_001:213-226: utilizationBefore of powerupPrice, times weight
AdjustedUtilization1(cpu, t) ==
    IF cpu.utilization < cpu.adjusted_utilization
    THEN LET diff == cpu.adjusted_utilization - cpu.utilization
             x == RDiv(RNeg(RSub(Rat(t, 1000), RInt(cpu.utilization_timestamp))),
                       RInt(cpu.decay_secs))
             delta == RMul(RInt(diff), MathExp(x))
         IN  RAdd(RInt(cpu.utilization), Clamp(delta, RInt(diff)))
    ELSE RInt(IF cpu.utilization > cpu.adjusted_utilization
              THEN cpu.utilization ELSE cpu.adjusted_utilization)

\* a mutant of PriceIntegralDelta: the bounds of the integral are exchanged
PriceIntegralDeltaBackwards(min_price, max_price, exponent, weight, start, end) ==
    LET coefficient == RDiv(RSub(max_price, min_price), RInt(exponent))
        start_u == RDiv(end, RInt(weight))
        end_u == RDiv(start, RInt(weight))
    IN  RSub(RAdd(RSub(RMul(min_price, end_u), RMul(min_price, start_u)),
                  RMul(coefficient, Pow(end_u, exponent))),
             RMul(coefficient, Pow(start_u, exponent)))

\* part_001:139-152: price_integral_delta
PriceIntegralDelta(min_price, max_price, exponent, weight, start, end) ==
    LET coefficient == RDiv(RSub(max_price, min_price), RInt(exponent))
        start_u == RDiv(start, RInt(weight))
        end_u == RDiv(end, RInt(weight))
    IN  RSub(RAdd(RSub(RMul(min_price, end_u), RMul(min_price, start_u)),
                  RMul(coefficient, Pow(end_u, exponent))),
             RMul(coefficient, Pow(start_u, exponent)))

\* part_001:154-163: price_function
PriceFunction(min_price, max_price, exponent, weight, utilization) ==
    IF exponent - 1 <= 0
    THEN max_price
    ELSE RAdd(min_price,
              RMul(RSub(max_price, min_price),
                   Pow(RDiv(utilization, RInt(weight)), exponent - 1)))

\* part_001:108-179: the fee powerupPrice2 computes, in EOS
Fee2(ms, st, t) ==
    LET cpu == st.cpu
        max_price == AssetValue(cpu.max_price)
        min_price == AssetValue(cpu.min_price)
        percentToRent == RDiv(RInt(ms), MspdAvailable(ResourcesShifted(st)))
        utilization_increase == RMul(RInt(cpu.weight), percentToRent)
        adjusted_utilization == AdjustedUtilization2(cpu, t)
        utilization == RInt(cpu.utilization)
        end_utilization == RAdd(utilization, utilization_increase)
        below == RLess(utilization, adjusted_utilization)
        flat == IF below
                THEN RDiv(RMul(PriceFunction(min_price, max_price, cpu.exponent,
                                             cpu.weight, adjusted_utilization),
                               RMin(utilization_increase,
                                    RSub(adjusted_utilization, utilization))),
                          RInt(cpu.weight))
                ELSE RInt(0)
        start_utilization == IF below THEN adjusted_utilization ELSE utilization
    IN  IF RLess(start_utilization, end_utilization)
        THEN RAdd(flat, PriceIntegralDelta(min_price, max_price, cpu.exponent,
                                           cpu.weight, start_utilization,
                                           end_utilization))
        ELSE flat

\* part_001:104-186: the value of powerupPrice2, in units
PowerupPrice2(ms, st, t) ==
    IF ms # 0 /\ st # NoPowerUp /\ ResourcesShifted(st) # 0
    THEN Ceil(RMul(Fee2(ms, st, t), RInt(10000)))
    ELSE 0

\* part_001:193-234: the price powerupPrice computes, in units
Fee1(ms, st, t) ==
    LET cpu == st.cpu
        min == RInt(cpu.min_price)
        max == RInt(cpu.max_price)
        coefficient == RDiv(RSub(max, min), RInt(cpu.exponent))
        percentToRent == RDiv(RInt(ms), MspdAvailable(ResourcesShifted(st)))
        utilizationBefore == RDiv(AdjustedUtilization1(cpu, t), RInt(cpu.weight))
        utilizationAfter == RAdd(utilizationBefore, percentToRent)
    IN  RAdd(RMul(min, RSub(utilizationAfter, utilizationBefore)),
             RMul(coefficient, RSub(Pow(utilizationAfter, cpu.exponent),
                                    Pow(utilizationBefore, cpu.exponent))))

\* part_001:189-241: the value of powerupPrice, in units
PowerupPrice(ms, st, t) ==
    IF st # NoPowerUp /\ ResourcesShifted(st) # 0
    THEN Ceil(Fee1(ms, st, t))
    ELSE 0

\* the snapshots of powup.state the prices are computed for: the state of the
\* scenario of a fresh pool, and pools of weight 8 with and without a surcharge
\* that is decaying
ScenarioState(ratio) ==
    [cpu |-> [weight |-> 1000000, weight_ratio |-> ratio, utilization |-> 0,
              adjusted_utilization |-> 0, utilization_timestamp |-> 60,
              decay_secs |-> 60, exponent |-> 2, min_price |-> 100,
              max_price |-> 10000]]

PowerUpStates ==
    {ScenarioState(r) : r \in {0, 50}}
        \cup {[cpu |-> [weight |-> 8, weight_ratio |-> r, utilization |-> u[1],
                        adjusted_utilization |-> u[2], utilization_timestamp |-> 60,
                        decay_secs |-> 60, exponent |-> e, min_price |-> 100,
                        max_price |-> 10000]] :
                r \in {0, 50}, u \in {<<0, 0>>, <<2, 2>>, <<2, 6>>}, e \in {1, 2}}

\* the instants at which the prices are computed: before the utilization
\* timestamp, at it, and half a decay period and a whole one after it
PriceTimes == {0, 60000, 90000, 120000}

\* the durations asked for: none, an eighth, a quarter and a half of the capacity
\* of a day, and the 1 ms msToRent starts with where no fee is computed for it
\* (the fee of 1 ms has a denominator beyond the integers of the model checker)
Eighth(st) == Floor(RDiv(MspdAvailable(ResourcesShifted(st)), RInt(8)))
Eighths(st) == {0, Eighth(st), 2 * Eighth(st), 4 * Eighth(st)}
Requests(st) == Eighths(st) \cup (IF ResourcesShifted(st) = 0 THEN {1} ELSE {})

\* part_001:104-107, 189-192: the derived stores are recomputed from their inputs
Derive(ms, st) ==
    /\ powerupPrice' = PowerupPrice(ms, st, now)
    /\ powerupPrice2' = PowerupPrice2(ms, st, now)

\* part_001:102: msToRent.set(ms)
SetMsToRent(ms) ==
    /\ ms # msToRent
    /\ msToRent' = ms
    /\ Derive(ms, pricedState)
    /\ UNCHANGED <<lateVars, accountStores, now, db, calls, reqs, timerVars, pollVars, sampleValue,
                   pricedState,
                   tokenVars>>

\* part_001:70, 104-107: statePowerUp is set to a new snapshot
SetStatePowerUp(st) ==
    /\ st # pricedState
    /\ pricedState' = st
    /\ Derive(msToRent, st)
    /\ UNCHANGED <<lateVars, accountStores, now, db, calls, reqs, timerVars, pollVars, sampleValue,
                   msToRent,
                   tokenVars>>

(***************************************************************************)
(* The tokens store (data-syncers.ts).  Names and keys are strings held as *)
(* sequences of characters, so that toLowerCase and join act on them.      *)
(***************************************************************************)
UpperCase == <<"A", "B", "C", "D", "E", "F", "G", "H", "I", "J", "K", "L", "M",
               "N", "O", "P", "Q", "R", "S", "T", "U", "V", "W", "X", "Y", "Z">>
LowerCase == <<"a", "b", "c", "d", "e", "f", "g", "h", "i", "j", "k", "l", "m",
               "n", "o", "p", "q", "r", "s", "t", "u", "v", "w", "x", "y", "z">>

\* a mutant of ToLowerCase: the string is left as it is
ToLowerCaseNone(s) == s

\* String.prototype.toLowerCase
ToLowerCase(s) ==
    [i \in 1..Len(s) |->
        IF \E k \in 1..26 : UpperCase[k] = s[i]
        THEN LowerCase[CHOOSE k \in 1..26 : UpperCase[k] = s[i]]
        ELSE s[i]]

\* Array.prototype.join('-') of three strings
Join(a, b, c) == a \o <<"-">> \o b \o <<"-">> \o c

\* data-syncers.ts:99-103
MakeTokenKey(token) == ToLowerCase(Join(token.chainId, token.contract, token.name))

\* the chains of the wallet, and chainConfig(chainId) of each
Chains == {"eos", "wax"}
ChainConfig(chain) ==
    IF chain = "eos"
    THEN [id |-> "eos", chainId |-> <<"a", "c", "a", "3">>,
          coreTokenContract |-> <<"t", "k">>, coreTokenSymbol |-> <<"E", "O", "S">>]
    ELSE [id |-> "wax", chainId |-> <<"1", "0", "6", "4">>,
          coreTokenContract |-> <<"t", "k">>, coreTokenSymbol |-> <<"W", "A", "X">>]

\* price?: number is undefined for a token without a price
NoPrice == 0 - 1
Prices == {1, 2}

\* the token list of @greymass/antelope-tokens
AntelopeTokens ==
    <<[chain |-> "eos", account |-> <<"u", "s">>, symbol |-> <<"U", "S", "D">>,
       name |-> <<"D", "o", "l", "-", "U", "S">>],
      [chain |-> "eos", account |-> <<"x">>, symbol |-> <<"E", "O", "S">>,
       name |-> <<"E", "o", "s">>],
      [chain |-> "wax", account |-> <<"u", "s">>, symbol |-> <<"U", "S", "D">>,
       name |-> <<"D", "o", "l", "-", "U", "S">>]>>

\* data-syncers.ts:126-144
CreateTokenFromChainId(chain, price) ==
    LET token == [chainId |-> ChainConfig(chain).chainId,
                  contract |-> ChainConfig(chain).coreTokenContract,
                  symbol |-> ChainConfig(chain).coreTokenSymbol,
                  name |-> ChainConfig(chain).coreTokenSymbol,
                  price |-> price]
    IN  [key |-> MakeTokenKey(token)] @@ token

\* data-syncers.ts:157-181: the records of the listed tokens of the chain, but
\* those with the symbol of the system token
RECURSIVE ListedRecords(_, _)
ListedRecords(chain, i) ==
    IF i > Len(AntelopeTokens)
    THEN <<>>
    ELSE LET t == AntelopeTokens[i]
             token == [chainId |-> ChainConfig(chain).chainId, contract |-> t.account,
                       symbol |-> t.symbol, name |-> t.name, price |-> NoPrice]
         IN  (IF t.chain = ChainConfig(chain).id
                    /\ t.symbol # ChainConfig(chain).coreTokenSymbol
              THEN <<[key |-> MakeTokenKey(token)] @@ token>>
              ELSE <<>>) \o ListedRecords(chain, i + 1)

\* data-syncers.ts:146-149: existing.find((t) => t.key === key); <<>> when none
GetToken(key) ==
    IF \E j \in 1..Len(tokens) : tokens[j].key = key
    THEN <<tokens[CHOOSE j \in 1..Len(tokens) :
                /\ tokens[j].key = key
                /\ \A k \in 1..(j - 1) : tokens[k].key # key]>>
    ELSE <<>>

\* data-syncers.ts:76-80, 151-184: the session changes to one on the chain and the
\* store's subscriber rebuilds the records; ticker is get(activePriceTicker)
LoadTokenMetadata(chain, ticker) ==
    /\ tokens' = <<CreateTokenFromChainId(chain, ticker)>> \o ListedRecords(chain, 1)
    /\ UNCHANGED <<lateVars, powerVars, accountStores, now, db, calls, reqs, timerVars, pollVars, sampleValue,
                   tickers>>

\* the calls of loadTokenPrices that subscribed to a price ticker
PriceCalls == IF tickers = <<>> THEN 0 ELSE tickers[Len(tickers)].call

\* data-syncers.ts:186-200: one subscription for each balance whose token is in
\* the store; the subscription keeps the token found
RECURSIVE Subscriptions(_, _, _)
Subscriptions(balances, i, call) ==
    IF i > Len(balances)
    THEN <<>>
    ELSE (IF GetToken(balances[i]) # <<>>
          THEN <<[token |-> GetToken(balances[i])[1], call |-> call, live |-> TRUE]>>
          ELSE <<>>) \o Subscriptions(balances, i + 1, call)

\* data-syncers.ts:83-88, 186-206: the balances change and loadTokenPrices runs;
\* what it returns is assigned to unsubscribePrices
LoadTokenPrices(balances) ==
    /\ tickers' = tickers \o Subscriptions(balances, 1, PriceCalls + 1)
    /\ unsubscribePrices' = PriceCalls + 1
    /\ UNCHANGED <<providerVars, currentVars, feeVars, powerVars, accountStores, now, db, calls, reqs, timerVars, pollVars, sampleValue,
                   tokens>>

\* data-syncers.ts:90-96, 201-205: the last subscriber of tokens leaves and the
\* stop function runs: unsubscribePrices(), if it is set, ends the subscriptions
\* of the call that returned it
TokensStop ==
    /\ unsubscribePrices # 0
    /\ tickers' = [i \in 1..Len(tickers) |->
                      IF tickers[i].call = unsubscribePrices
                      THEN [tickers[i] EXCEPT !.live = FALSE]
                      ELSE tickers[i]]
    /\ unsubscribePrices' = 0
    /\ UNCHANGED <<providerVars, currentVars, feeVars, powerVars, accountStores, now, db,
                   calls, reqs, timerVars, pollVars, sampleValue, tokens>>

\* data-syncers.ts:208-211
SetTokenPrice(token, price) ==
    tokens' = SelectSeq(tokens, LAMBDA t : t.key # token.key)
                \o <<[token EXCEPT !.price = price]>>

\* data-syncers.ts:193-197: a price ticker publishes a price to its subscriber
PriceTick(i, v) ==
    /\ tickers[i].live
    /\ SetTokenPrice(tickers[i].token, v)
    /\ UNCHANGED <<lateVars, powerVars, accountStores, now, db, calls, reqs, timerVars, pollVars, sampleValue,
                   tickers>>

(***************************************************************************)
(* syncTxFee: a loop that fetches the transaction fee of the chain, waits  *)
(* 15 s and fetches again.                                                 *)
(***************************************************************************)
\* data-syncers.ts:12   await wait(15000)
feeWait == 15000

\* the rows get_table_rows may answer with: none, or one row and its suf_amount
FeeRowSets == {<<>>, <<1>>, <<2>>}

\* data-syncers.ts:20-22: fetchFee is called and runs up to its first await
NewFetch(l) == [loop |-> l, at |-> now, st |-> "context", doneAt |-> 0]

FetchesOf(l) == {k \in DOMAIN feeFetches : feeFetches[k].loop = l}
InFlight(k) == feeFetches[k].st \in {"context", "rows"}

\* data-syncers.ts:6-8, 16-18: syncTxFee() enters the loop and calls fetchFee
SyncTxFee ==
    /\ feeLoops' = Append(feeLoops, [pc |-> "fetching", wake |-> 0])
    /\ feeFetches' = Append(feeFetches, NewFetch(Len(feeLoops) + 1))
    /\ UNCHANGED <<subsVars, providerVars, currentVars, txFees, priceVars, accountStores,
                   now, db, calls, reqs, timerVars, pollVars, sampleValue>>

\* a mutant of Settle: a fetchFee that has thrown ends the loop
SettleUncaught(k, st) ==
    /\ feeFetches' = [feeFetches EXCEPT ![k].st = st, ![k].doneAt = now]
    /\ feeLoops' = [feeLoops EXCEPT ![feeFetches[k].loop] =
                       IF st = "failed" THEN [pc |-> "ended", wake |-> 0]
                       ELSE [pc |-> "waiting", wake |-> now + feeWait]]

\* data-syncers.ts:8-12: the promise of fetchFee settles, a rejection is caught,
\* and the loop goes on to wait(15000)
Settle(k, st) ==
    /\ feeFetches' = [feeFetches EXCEPT ![k].st = st, ![k].doneAt = now]
    /\ feeLoops' = [feeLoops EXCEPT ![feeFetches[k].loop] =
                       [pc |-> "waiting", wake |-> now + feeWait]]

\* data-syncers.ts:21-36: the session and the chain are there; a chain without
\* fees ends the call, another has its fees table read
FeeContext(k, hasFees) ==
    /\ feeFetches[k].st = "context"
    /\ IF hasFees
       THEN /\ feeFetches' = [feeFetches EXCEPT ![k].st = "rows"]
            /\ UNCHANGED feeLoops
       ELSE Settle(k, "nofees")
    /\ UNCHANGED <<subsVars, providerVars, currentVars, txFees, priceVars, accountStores,
                   now, db, calls, reqs, timerVars, pollVars, sampleValue>>

\* data-syncers.ts:27-41: get_table_rows answers; fees.rows[0].suf_amount throws
\* when there is no row, else txFees is set
FeeRows(k, rows) ==
    /\ feeFetches[k].st = "rows"
    /\ IF rows = <<>>
       THEN Settle(k, "failed") /\ UNCHANGED txFees
       ELSE Settle(k, "ok") /\ txFees' = rows[1]
    /\ UNCHANGED <<subsVars, providerVars, currentVars, priceVars, accountStores,
                   now, db, calls, reqs, timerVars, pollVars, sampleValue>>

\* data-syncers.ts:21-36: one of the awaits of fetchFee rejects
FeeReject(k) ==
    /\ InFlight(k)
    /\ Settle(k, "failed")
    /\ UNCHANGED <<subsVars, providerVars, currentVars, txFees, priceVars, accountStores,
                   now, db, calls, reqs, timerVars, pollVars, sampleValue>>

\* data-syncers.ts:7-12: wait(15000) is over and the loop calls fetchFee again
FeeWake(l) ==
    /\ feeLoops[l].pc = "waiting"
    /\ now = feeLoops[l].wake
    /\ feeLoops' = [feeLoops EXCEPT ![l] = [pc |-> "fetching", wake |-> 0]]
    /\ feeFetches' = Append(feeFetches, NewFetch(l))
    /\ UNCHANGED <<subsVars, providerVars, currentVars, txFees, priceVars, accountStores,
                   now, db, calls, reqs, timerVars, pollVars, sampleValue>>

\* the balance sets: the keys of the tokens held, on either chain
TokenKeys ==
    {CreateTokenFromChainId(c, NoPrice).key : c \in Chains}
        \cup UNION {{ListedRecords(c, 1)[i].key : i \in 1..Len(ListedRecords(c, 1))} :
                        c \in Chains}
BalanceSets == {<<k>> : k \in TokenKeys}

\* the stores and the cache before anything has run
InitStores ==
    /\ db = [k \in Keys |-> IF k = AccountKey("alice", ChainId)
                              THEN LegacyRow("alice") ELSE NoRow]
    /\ calls = <<>>
    /\ reqs = <<>>
    /\ timers = [p \in TimedPollers |-> <<>>]
    /\ running = [p \in TimedStores |-> 0]
    /\ interval = 0
    /\ subscribed = FALSE
    /\ polls = [p \in TimedPollers |-> <<>>]
    /\ published = [p \in {"powerup", "rex"} |-> Undefined]
    /\ sampleValue = [stale |-> TRUE]
    /\ accountStores = <<>>
    /\ tokensData = NoTokens
    /\ session = NoSession
    /\ tokens = <<>>
    /\ tickers = <<>>
    /\ unsubscribePrices = 0
    /\ accountProvider = [stale |-> TRUE]
    /\ lookups = <<>>
    /\ isLoading = FALSE
    /\ currentAccount = Null
    /\ currentRun = [subscribed |-> FALSE, call |-> 0]
    /\ feeLoops = <<>>
    /\ feeFetches = <<>>
    /\ txFees = 0

Init ==
    /\ now = 0
    /\ InitStores
    /\ msToRent = 1
    /\ pricedState = NoPowerUp
    /\ powerupPrice = PowerupPrice(1, NoPowerUp, 0)
    /\ powerupPrice2 = PowerupPrice2(1, NoPowerUp, 0)

Next ==
    \/ \E n \in Names, f \in BOOLEAN : LoadAccount(n, f)
    \/ \E c \in CallIds : LoadDecide(c)
    \/ \E r \in 1..Len(reqs), a \in AllAccounts : NetOk(r, a)
    \/ \E r \in 1..Len(reqs) : NetFail(r)
    \/ \E c \in CallIds : StorePut(c)
    \/ \E c \in CallIds : SetFresh(c)
    \/ \E t \in TimePoints : AdvanceTime(t)

Spec == Init /\ [][Next]_vars

\* the pollers on their own: the only loadAccount calls are sampleAccountResponse's
NextPollers ==
    \/ PollCount < MaxPolls /\ \E p \in StorePollers : Subscribe(p)
    \/ \E p \in StorePollers : Unsubscribe(p)
    \/ PollCount < MaxPolls /\ SyncTokenBalances
    \/ StopSyncTokenBalances
    \/ PollCount < MaxPolls /\ \E p \in Pollers : \E t \in TimerIds(p) : TimerFire(p, t)
    \/ \E p \in PoolPollers : \E i \in PollIds(p), v \in Snapshots \cup {Undefined} :
          PoolOk(p, i, v)
    \/ \E p \in PoolPollers : \E i \in PollIds(p) : PoolFail(p, i)
    \/ \E i \in PollIds("balances") : BalFetchOk(i)
    \/ \E i \in PollIds("balances") : BalFetchFail(i)
    \/ \E i \in PollIds("balances"), body \in Bodies : BalJsonOk(i, body)
    \/ \E i \in PollIds("balances") : BalJsonFail(i)
    \/ \E b \in {NoSession, sessionActor} : SetSession(b)
    \/ \E c \in CallIds : LoadDecide(c)
    \/ \E r \in 1..Len(reqs), a \in AllAccounts : NetOk(r, a)
    \/ \E r \in 1..Len(reqs) : NetFail(r)
    \/ \E c \in CallIds : StorePut(c)
    \/ \E c \in CallIds : SetFresh(c)
    \/ \E t \in Deadlines : AdvanceTime(t)

SpecPollers == Init /\ [][NextPollers]_vars

\* the stores of getAccount: every loadAccount call is one getAccount makes
NextGetAccount ==
    \/ \E n \in Names, f \in BOOLEAN : GetAccount(n, f)
    \/ \E c \in CallIds : LoadDecide(c)
    \/ \E r \in 1..Len(reqs), a \in AllAccounts : NetOk(r, a)
    \/ \E r \in 1..Len(reqs) : NetFail(r)
    \/ \E c \in CallIds : StorePut(c)
    \/ \E c \in CallIds : SetFresh(c)
    \/ \E c \in CallIds : GetAccountCatch(c)
    \/ \E t \in TimePoints : AdvanceTime(t)

SpecGetAccount == Init /\ [][NextGetAccount]_vars

\* accountProvider and the loadAccount calls updateAccount makes
NextProvider ==
    \/ Len(timers["account"]) < MaxStorePolls /\ ProviderStart
    \/ ProviderStop
    \/ now < MaxStorePolls * Interval("account")
          /\ \E t \in TimerIds("account") : ProviderTick(t)
    \/ \E b \in {NoSession, sessionActor} : SetSession(b)
    \/ \E c \in CallIds : LoadDecide(c)
    \/ \E r \in 1..Len(reqs), a \in AllAccounts : NetOk(r, a)
    \/ \E r \in 1..Len(reqs) : NetFail(r)
    \/ \E c \in CallIds : StorePut(c)
    \/ \E c \in CallIds : SetFresh(c)
    \/ \E i \in DOMAIN lookups : LookupDone(i)
    \/ \E t \in Deadlines : AdvanceTime(t)

SpecProvider == Init /\ [][NextProvider]_vars

\* currentAccount and the loadAccount calls its callback makes
NextCurrent ==
    \/ CurrentSubscribe
    \/ CurrentUnsubscribe
    \/ \E b \in {NoSession} \cup Names : SetSession(b)
    \/ \E c \in CallIds : LoadDecide(c)
    \/ \E r \in 1..Len(reqs), a \in AllAccounts : NetOk(r, a)
    \/ \E r \in 1..Len(reqs) : NetFail(r)
    \/ \E c \in CallIds : StorePut(c)
    \/ \E c \in CallIds : SetFresh(c)
    \/ \E t \in TimePoints : AdvanceTime(t)

SpecCurrent == Init /\ [][NextCurrent]_vars

\* the pool-state pollers statePowerUp and stateREX on their own
NextPool ==
    \/ PollCount < MaxPoolPolls /\ \E p \in PoolPollers : Subscribe(p)
    \/ \E p \in PoolPollers : Unsubscribe(p)
    \/ PollCount < MaxPoolPolls /\ \E p \in PoolPollers : \E t \in TimerIds(p) : TimerFire(p, t)
    \/ \E p \in PoolPollers : \E i \in PollIds(p), v \in Snapshots \cup {Undefined} :
          PoolOk(p, i, v)
    \/ \E p \in PoolPollers : \E i \in PollIds(p) : PoolFail(p, i)
    \/ \E t \in Deadlines : AdvanceTime(t)

SpecPool == Init /\ [][NextPool]_vars

\* the four stores with a timer, as their subscribers come and go and the user logs
\* in and out; the fetches they issue stay in flight
NextStores ==
    \/ PollCount < MaxStorePolls /\ \E p \in StorePollers : Subscribe(p)
    \/ \E p \in StorePollers : Unsubscribe(p)
    \/ PollCount < MaxStorePolls
          /\ \E p \in StorePollers : \E t \in TimerIds(p) : TimerFire(p, t)
    \/ PollCount < MaxStorePolls /\ Len(timers["account"]) < MaxStorePolls
          /\ ProviderStart
    \/ ProviderStop
    \/ PollCount < MaxStorePolls /\ now < MaxStorePolls * Interval("account")
          /\ \E t \in TimerIds("account") : ProviderTick(t)
    \/ PollCount < MaxStorePolls /\ \E b \in {NoSession, sessionActor} : SetSession(b)
    \/ \E t \in Deadlines : AdvanceTime(t)

SpecStores == Init /\ [][NextStores]_vars

\* the price stores on their own: a pool snapshot has been published and a duration
\* chosen at some instant, and then either input is set anew
InitPrice ==
    /\ now \in PriceTimes
    /\ InitStores
    /\ pricedState \in PowerUpStates
    /\ msToRent \in Requests(pricedState)
    /\ powerupPrice = PowerupPrice(msToRent, pricedState, now)
    /\ powerupPrice2 = PowerupPrice2(msToRent, pricedState, now)

NextPrice ==
    \/ \E ms \in Requests(pricedState) : SetMsToRent(ms)
    \/ \E st \in PowerUpStates : msToRent \in Requests(st) /\ SetStatePowerUp(st)

SpecPrice == InitPrice /\ [][NextPrice]_vars

\* the tokens store on its own: sessions and balances change and prices arrive
NextTokens ==
    \/ \E c \in Chains : LoadTokenMetadata(c, NoPrice)
    \/ PriceCalls < MaxPriceCalls /\ \E b \in BalanceSets : LoadTokenPrices(b)
    \/ \E i \in 1..Len(tickers), v \in Prices : PriceTick(i, v)
    \/ TokensStop

SpecTokens == Init /\ [][NextTokens]_vars

\* an instant at which a fetchFee may settle, other than those at which a wait ends
FeeTimes == {5000}

\* the syncTxFee loops
FeeTick == \E t \in FeeTimes \cup Deadlines : AdvanceTime(t)
FeeWakes == Len(feeFetches) < MaxFetches /\ \E l \in DOMAIN feeLoops : FeeWake(l)
NextFee ==
    \/ Len(feeLoops) < MaxFeeLoops /\ Len(feeFetches) < MaxFetches /\ SyncTxFee
    \/ \E k \in DOMAIN feeFetches, h \in BOOLEAN : FeeContext(k, h)
    \/ \E k \in DOMAIN feeFetches, rows \in FeeRowSets : FeeRows(k, rows)
    \/ \E k \in DOMAIN feeFetches : FeeReject(k)
    \/ FeeWakes
    \/ FeeTick

SpecFee == Init /\ [][NextFee]_vars

\* the clock runs and a timer that is due fires
SpecFeeLive == SpecFee /\ WF_vars(FeeTick) /\ WF_vars(FeeWakes)

(***************************************************************************)
(* The claims about loadAccount, checked under Spec.                       *)
(***************************************************************************)
Decided(c) == calls[c].pc # "get"
FromCache(c) == {i \in 1..Len(calls[c].cbs) : calls[c].cbs[i].from = "cache"}
FromNetwork(c) == {i \in 1..Len(calls[c].cbs) : calls[c].cbs[i].from = "network"}
RequestsBy(c) == {r \in 1..Len(reqs) : reqs[r].by = c}

\* what line 124 is claimed to test, stated on what the call saw
MustFetch(c) ==
    calls[c].cached = NoRow \/ calls[c].age > 60000 \/ calls[c].refresh

\* C1: a call that found a record hands the cached {account, stale} to the callback
\* first: it has done so by the time its get_account request is in flight, and no
\* cached invocation follows the fresh one
C1_CachedBeforeFresh ==
    \A c \in CallIds :
        /\ (Decided(c) /\ calls[c].cached # NoRow) =>
              /\ Len(calls[c].cbs) >= 1
              /\ calls[c].cbs[1].from = "cache"
              /\ calls[c].cbs[1].account = AccountFrom(PatchVoterInfo(calls[c].cached))
        /\ \A i \in FromNetwork(c), j \in FromCache(c) : j < i

C1_Witness ==
    \E c \in CallIds :
        /\ Len(calls[c].cbs) = 2
        /\ calls[c].cbs[1].from = "cache"
        /\ calls[c].cbs[2].from = "network"
        /\ calls[c].cbs[1].account # calls[c].cbs[2].account

\* C2: a call issues get_account exactly when it found no record, or the record is
\* stale, or refresh is true, and then it issues one request, never more
C2_FetchIff ==
    \A c \in CallIds :
        /\ Cardinality(RequestsBy(c)) <= 1
        /\ Decided(c) =>
              /\ (calls[c].req # 0) = MustFetch(c)
              /\ Cardinality(RequestsBy(c)) = (IF MustFetch(c) THEN 1 ELSE 0)
        /\ ~Decided(c) => RequestsBy(c) = {}

C2_Witness ==
    \E c, d \in CallIds :
        /\ Decided(c) /\ calls[c].refresh /\ calls[c].cached # NoRow
        /\ calls[c].age <= 60000 /\ calls[c].req # 0
        /\ Decided(d) /\ calls[d].req = 0

\* C3: a call made after a call for the same key completed with a successful fetch
\* finds a record; with refresh = false and the record's age not above maxAge it
\* issues no request and invokes the callback once, with stale = false
C3_HitAfterFetch ==
    \A c \in CallIds :
        (calls[c].after /\ Decided(c)) =>
            /\ calls[c].cached # NoRow
            /\ (~calls[c].refresh /\ calls[c].age <= 60000) =>
                  /\ calls[c].req = 0
                  /\ RequestsBy(c) = {}
                  /\ calls[c].pc = "done"
                  /\ Len(calls[c].cbs) = 1
                  /\ calls[c].cbs[1].stale = FALSE

C3_Witness ==
    \E c \in CallIds :
        /\ calls[c].after /\ ~calls[c].refresh /\ calls[c].pc = "done"
        /\ calls[c].age = 60000
        /\ Len(calls[c].cbs) = 1

C5_StoreThenSet ==
    [][\A c \in CallIds :
          LET k == calls[c]
              k2 == calls'[c]
              key == AccountKey(k.name, ChainId)
          IN  /\ (k.pc = "storing" /\ k2.pc # "storing") =>
                    /\ k2.pc = "stored"
                    /\ db'[key] = [account |-> Objectify(k.fetched), updated |-> now]
                    /\ k2.cbs = k.cbs
              /\ (FromNetwork(c)' # FromNetwork(c)) =>
                    /\ k.pc = "stored" /\ k2.pc = "done"
                    /\ k2.cbs = Append(k.cbs, [account |-> k.fetched, stale |-> FALSE,
                                               from |-> "network"])
              /\ (k.pc = "fetching" /\ k2.fetched # NoRow) => k2.pc = "storing"
              /\ k.pc = "done" => k2 = k
      ]_vars

C5_Witness ==
    \E c \in CallIds :
        /\ calls[c].pc = "done" /\ calls[c].fetched # NoRow
        /\ calls[c].cached # NoRow /\ calls[c].cached # Objectify(calls[c].fetched)
        /\ db[AccountKey(calls[c].name, ChainId)].account = Objectify(calls[c].fetched)
        /\ calls[c].cbs[Len(calls[c].cbs)] =
              [account |-> calls[c].fetched, stale |-> FALSE, from |-> "network"]

\* C6: when get_account fails the call rejects at once: it issues no second
\* request, makes no further callback invocation and leaves the cache as it is,
\* and a rejected call does nothing more
C6_FailRejects ==
    [][\A c \in CallIds :
          LET k == calls[c]
              k2 == calls'[c]
          IN  /\ (k.pc = "fetching" /\ reqs'[k.req].st = "failed") =>
                    /\ k2 = [k EXCEPT !.pc = "rejected"]
                    /\ db' = db
                    /\ Len(reqs') = Len(reqs)
              /\ k.pc = "rejected" =>
                    /\ k2 = k
                    /\ reqs[k.req].st = "failed"
                    /\ RequestsBy(c) = {k.req}
                    /\ FromNetwork(c) = {}
                    /\ k.fetched = NoRow
      ]_vars

C6_Witness ==
    \E c \in CallIds :
        /\ calls[c].pc = "rejected"
        /\ Len(calls[c].cbs) = 1 /\ calls[c].cbs[1].stale
        /\ db[AccountKey(calls[c].name, ChainId)].account = calls[c].cached

\* C7: calls are never coalesced: the requests issued are as many as the calls that
\* had to fetch, each such call has a request of its own, also when the calls are
\* for the same key and run at the same time
C7_NoCoalescing ==
    /\ Len(reqs) = Cardinality({c \in CallIds : Decided(c) /\ MustFetch(c)})
    /\ \A c, d \in CallIds :
          (c # d /\ calls[c].req # 0 /\ calls[d].req # 0) => calls[c].req # calls[d].req
    /\ \A r \in 1..Len(reqs) :
          Cardinality({c \in CallIds : calls[c].req = r}) = 1

C7_Witness ==
    \E c, d \in CallIds :
        /\ c # d /\ calls[c].name = calls[d].name
        /\ calls[c].pc = "fetching" /\ calls[d].pc = "fetching"
        /\ calls[c].req # calls[d].req
        /\ Len(reqs) = 2

\* C8: a call that reads the row storeAccount wrote for a snapshot a hands the
\* callback an account equal to a, with or without voter_info
C8_RoundTrip ==
    \A c \in CallIds : \A a \in AllAccounts :
        (Decided(c) /\ calls[c].cached = StoredRow(a, 0).account) =>
            /\ FromCache(c) = {1}
            /\ calls[c].cbs[1].account = a

C8_Witness ==
    \E c \in CallIds : \E a \in AllAccounts :
        /\ a.voter_info # NoVoter
        /\ Decided(c) /\ calls[c].cached = Objectify(a)
        /\ calls[c].cbs[1].account = a

(***************************************************************************)
(* The claims about the pollers.                                           *)
(***************************************************************************)
\* C9, checked under SpecPool: a failed get_table_rows leaves the store and the
\* timers as they are, so the snapshot published before stays and the next tick
\* fetches again; the store changes only when a fetch of its poller succeeds
C9_FailKeepsSnapshot ==
    [][\A p \in PoolPollers :
          /\ (\E i \in PollIds(p) :
                polls[p][i].st = "inflight" /\ polls'[p][i].st = "failed") =>
                /\ published' = published
                /\ timers' = timers
                /\ running' = running
          /\ published'[p] # published[p] =>
                \E i \in PollIds(p) : polls[p][i].st = "inflight" /\ polls'[p][i].st = "ok"
      ]_vars

C9_Witness ==
    \E p \in PoolPollers : \E i, j \in PollIds(p) :
        /\ i < j
        /\ polls[p][i].st = "failed"
        /\ polls[p][j].trigger = "tick" /\ polls[p][j].prevSt = "failed"
        /\ polls[p][j].st = "inflight"
        /\ published[p] \in Snapshots

\* the periods of the pollers, in ms
Period(p) ==
    CASE p \in PoolPollers -> 30000
      [] p = "sample" -> 1000
      [] p = "balances" -> 900000

PollsOf(p, t) == {i \in PollIds(p) : polls[p][i].timer = t}

\* every timer was created by a start that invoked the fetch routine at that instant
StartsAtOnce ==
    \A p \in Pollers : \A t \in TimerIds(p) :
        \E i \in PollsOf(p, t) :
            /\ polls[p][i].trigger = "start"
            /\ polls[p][i].at = timers[p][t].created
            /\ \A j \in PollsOf(p, t) : j >= i

\* C10 as claimed, checked under SpecPollers: a poller fetches at once when it
\* starts, and a next fetch is issued only once the previous one has succeeded
C10_NextAfterSuccess ==
    /\ StartsAtOnce
    /\ \A p \in Pollers : \A i \in PollIds(p) :
          polls[p][i].trigger = "tick" => polls[p][i].prevSt = "ok"

\* C10 as amended, checked under SpecPollers: a poller invokes its fetch routine at
\* once when it starts and then on every tick of the timer it created, one period
\* after the previous invocation, however that one's fetch has fared
C10_FixedInterval ==
    /\ StartsAtOnce
    /\ \A p \in Pollers : \A i \in PollIds(p) :
          /\ polls[p][i].trigger = "tick" =>
                polls[p][i].at = polls[p][i].prevAt + Period(p)
          /\ (p = "sample") = (polls[p][i].call # 0)
    /\ \A p \in Pollers : \A t \in TimerIds(p) :
          /\ Cardinality(PollsOf(p, t)) * Period(p)
                = timers[p][t].last - timers[p][t].created + Period(p)
          /\ timers[p][t].active => now <= timers[p][t].last + Period(p)

C10_Witness ==
    \E p \in Pollers : \E i \in PollIds(p) :
        /\ polls[p][i].trigger = "tick"
        /\ polls[p][i].prevSt = "inflight"
        /\ polls[p][i].at = Period(p)

\* the timers and subscriptions a stopped store must not have
Stopped(p) ==
    /\ ActiveTimers(p) = {}
    /\ p = "account" => ~subscribed

\* C11, checked under SpecStores: the teardown of statePowerUp, stateREX,
\* sampleAccountResponse and accountProvider clears the store's interval timer, and
\* accountProvider's also ends its subscription to activeSession; a store that has
\* been torn down issues no fetch until it is started again
C11_TeardownStops ==
    [][\A p \in TimedStores :
          /\ running[p] = 0 => Stopped(p)
          /\ running'[p] = 0 => Stopped(p)'
          /\ (running[p] = 0 /\ running'[p] = 0) =>
                /\ polls'[p] = polls[p]
                /\ timers'[p] = timers[p]
      ]_vars

C11_Witness ==
    /\ \E p \in StorePollers :
          /\ running[p] = 0
          /\ Len(timers[p]) = 1
          /\ now >= timers[p][1].created + Interval(p)
          /\ Len(polls[p]) = 1
    /\ running["account"] = 0
    /\ Len(timers["account"]) = 1
    /\ session # NoSession
    /\ polls["account"] = <<>>

(***************************************************************************)
(* The claims about fetchBalances, checked under SpecPollers.  The status  *)
(* "failed" of a balances poll is the rejection of the promise             *)
(* fetchBalances returned.                                                 *)
(***************************************************************************)
BalancePolls == PollIds("balances")
EmptyTokenMap == [map |-> ParseTokens(<<>>)]

\* C12 as claimed: when fetch(apiUrl) fails, fetchBalances does not reject and
\* tokensData keeps its value
C12_FetchFailureSwallowed ==
    [][\A i \in BalancePolls :
          (polls["balances"][i].err = "none" /\ polls'["balances"][i].err = "network") =>
              /\ polls'["balances"][i].st # "failed"
              /\ tokensData' = tokensData
      ]_vars

\* C13 as claimed: when the response body does not parse, fetchBalances does not
\* reject and sets tokensData to the empty token map
C13_ParseFailureEmpty ==
    [][\A i \in BalancePolls :
          (polls["balances"][i].err = "none" /\ polls'["balances"][i].err = "parse") =>
              /\ polls'["balances"][i].st # "failed"
              /\ tokensData' = EmptyTokenMap
      ]_vars

(***************************************************************************)
(* The claims about the PowerUp price, checked under SpecPrice.            *)
(***************************************************************************)
\* C14: with the pool snapshot, and so the shift ratio, left as it is, a longer
\* msToRent never lowers the price of powerupPrice2
C14_MonotoneInMsToRent ==
    [][(pricedState' = pricedState /\ msToRent <= msToRent') =>
            powerupPrice2 <= powerupPrice2'
      ]_vars

C14_Witness ==
    /\ pricedState.cpu.utilization < pricedState.cpu.adjusted_utilization
    /\ msToRent = 4 * Eighth(pricedState)
    /\ PowerupPrice2(Eighth(pricedState), pricedState, now) > 0
    /\ PowerupPrice2(Eighth(pricedState), pricedState, now)
          < PowerupPrice2(2 * Eighth(pricedState), pricedState, now)
    /\ PowerupPrice2(2 * Eighth(pricedState), pricedState, now) < powerupPrice2

\* units is the exact fee rounded up to a whole unit
RoundedUp(units, exact) ==
    /\ RLeq(exact, RInt(units))
    /\ RLess(RInt(units), RAdd(exact, RInt(1)))

\* C15 as claimed: the units powerupPrice2 and powerupPrice return are the exact
\* fee rounded up: not below it, and less than one unit above it
C15_RoundedUp ==
    msToRent \in Eighths(pricedState) =>
        /\ RoundedUp(powerupPrice2,
                     RMul(Fee2(msToRent, pricedState, now), RInt(10000)))
        /\ RoundedUp(powerupPrice, Fee1(msToRent, pricedState, now))

\* C16 as claimed: in the scenario of a fresh pool of weight 1000000 with shift
\* ratio 0 and msToRent = 1 the price is above 0 and below max_price
C16_ScenarioPrice ==
    (pricedState = ScenarioState(0) /\ msToRent = 1) =>
        /\ powerupPrice2 > 0 /\ powerupPrice2 < pricedState.cpu.max_price
        /\ powerupPrice > 0 /\ powerupPrice < pricedState.cpu.max_price

\* C17: for a snapshot with utilization <= adjusted_utilization, whatever the
\* clock and the utilization timestamp, the adjusted utilization both stores price
\* with lies between the two, and is the snapshot's own when the two are equal
C17_DecayWithinBounds ==
    LET cpu == pricedState.cpu
        U == RInt(cpu.utilization)
        Ua == RInt(cpu.adjusted_utilization)
    IN  cpu.utilization <= cpu.adjusted_utilization =>
            \A adjusted \in {AdjustedUtilization2(cpu, now), AdjustedUtilization1(cpu, now)} :
                /\ RLeq(U, adjusted) /\ RLeq(adjusted, Ua)
                /\ cpu.utilization = cpu.adjusted_utilization => adjusted = Ua

C17_Witness ==
    /\ pricedState.cpu.utilization < pricedState.cpu.adjusted_utilization
    /\ now < pricedState.cpu.utilization_timestamp * 1000
    /\ AdjustedUtilization2(pricedState.cpu, now) = RInt(pricedState.cpu.adjusted_utilization)
    /\ AdjustedUtilization1(pricedState.cpu, now) = RInt(pricedState.cpu.adjusted_utilization)
    /\ ResourcesShifted(pricedState) # 0
    /\ powerupPrice2 > 0

(***************************************************************************)
(* The claims about the tokens store, checked under SpecTokens.            *)
(***************************************************************************)
\* two characters that are the same letter, whatever their case
SameLetter(c, d) ==
    c = d \/ \E k \in 1..26 : {c, d} = {UpperCase[k], LowerCase[k]}

SameIgnoringCase(s, t) ==
    Len(s) = Len(t) /\ \A i \in 1..Len(s) : SameLetter(s[i], t[i])

SameTuple(a, b) ==
    /\ SameIgnoringCase(a.chainId, b.chainId)
    /\ SameIgnoringCase(a.contract, b.contract)
    /\ SameIgnoringCase(a.name, b.name)

\* tuples of a chain id (hexadecimal), a contract (an account name) and a token name
TokenKeyParams ==
    [chainId : {ChainConfig(c).chainId : c \in Chains},
     contract : {<<"t", "k">>, <<"t">>},
     name : {<<"E", "O", "S">>, <<"e", "o", "s">>, <<"k", "-", "E", "O", "S">>,
             <<"k", "-", "e", "O", "s">>}]

\* the keys of any two tuples are equal exactly when the tuples are the same up
\* to the case of the letters
KeysOfParams ==
    \A a, b \in TokenKeyParams :
        (MakeTokenKey(a) = MakeTokenKey(b)) <=> SameTuple(a, b)

\* C18: makeTokenKey gives two (chainId, contract, name) tuples the same key exactly
\* when they are the same tuple up to the case of the letters; so it is for the
\* tuples of a test set and for the records of the store, whose key is that of
\* their own tuple
C18_KeyIdentifiesTuple ==
    /\ KeysOfParams
    /\ \A i, j \in 1..Len(tokens) :
          /\ tokens[i].key = MakeTokenKey(tokens[i])
          /\ (tokens[i].key = tokens[j].key) <=> SameTuple(tokens[i], tokens[j])

C18_Witness ==
    \E i, j \in 1..Len(tokens) :
        /\ tokens[i].name # ToLowerCase(tokens[i].name)
        /\ tokens[i].key = MakeTokenKey([tokens[i] EXCEPT !.name = ToLowerCase(@)])
        /\ tokens[i].contract = tokens[j].contract
        /\ tokens[i].key # tokens[j].key

\* the entries of the store with the key, and the others
WithKey(list, key) == SelectSeq(list, LAMBDA t : t.key = key)
WithoutKey(list, key) == SelectSeq(list, LAMBDA t : t.key # key)

\* C19 as claimed: setTokenPrice(token, p) leaves the store with as many entries as
\* before, one entry with token.key, which is the entry the store held with that
\* key but for its price p, and every other entry as it was
C19_PricePatchedInPlace ==
    [][\A i \in 1..Len(tickers), p \in Prices :
          PriceTick(i, p) =>
              LET key == tickers[i].token.key
              IN  /\ Len(tokens') = Len(tokens)
                  /\ Len(WithKey(tokens', key)) = 1
                  /\ WithKey(tokens', key)[1].price = p
                  /\ \E j \in 1..Len(tokens) :
                        /\ tokens[j].key = key
                        /\ WithKey(tokens', key)[1] = [tokens[j] EXCEPT !.price = p]
                  /\ WithoutKey(tokens', key) = WithoutKey(tokens, key)
      ]_vars

\* the account and the stale flag delivered last by call c, {stale: true} when
\* nothing was delivered
LastDelivered(c) ==
    IF calls[c].cbs = <<>>
    THEN [stale |-> TRUE]
    ELSE [account |-> calls[c].cbs[Len(calls[c].cbs)].account,
          stale |-> calls[c].cbs[Len(calls[c].cbs)].stale]

HasError(value) == "error" \in DOMAIN value

\* C20: the store getAccount returned holds an error exactly when its loadAccount
\* call has failed and the failure was handled; with or without the error it
\* holds the account and the stale flag delivered last, or {stale: true} alone
\* when nothing was delivered
C20_ErrorKeepsAccount ==
    \A s \in DOMAIN accountStores :
        LET c == accountStores[s].call
            v == accountStores[s].value
        IN  /\ HasError(v) <=> calls[c].pc = "caught"
            /\ HasError(v) => v.error = "rejected"
            /\ [f \in DOMAIN v \ {"error"} |-> v[f]] = LastDelivered(c)

\* a store that was handed a cached account and then the failure of the fetch
C20_Witness ==
    \E s \in DOMAIN accountStores :
        /\ HasError(accountStores[s].value)
        /\ "account" \in DOMAIN accountStores[s].value
        /\ calls[accountStores[s].call].cbs # <<>>

\* C24 as claimed: a response set into statePowerUp or stateREX is never that of
\* a fetch issued before the fetch whose response the store holds
C24_NoOlderResponse ==
    [][\A p \in PoolPollers : \A i \in PollIds(p) :
          (polls[p][i].st = "inflight" /\ polls'[p][i].st = "ok")
              => \A j \in PollIds(p) : polls[p][j].current => j < i
      ]_vars

\* C26 as claimed: once stopSyncTokenBalances has run, no timer set by
\* syncTokenBalances is active
C26_StopClearsEveryTimer ==
    [][StopSyncTokenBalances => ActiveTimers("balances")' = {}]_vars

\* C23 as claimed: the live price subscriptions are those of the loadTokenPrices
\* call made last, and none is live once the stop function of tokens has run
C23_OnlyLatestSubscriptions ==
    \A i \in 1..Len(tickers) : tickers[i].live => tickers[i].call = unsubscribePrices

\* the fetchFee calls of a loop, in order
LoopFetches(l) == SelectSeq(feeFetches, LAMBDA f : f.loop = l)

\* a loop has a fetchFee in flight, or none and its wait under way
OneInFlight ==
    \A l \in DOMAIN feeLoops :
        /\ Cardinality({k \in FetchesOf(l) : InFlight(k)})
              = (IF feeLoops[l].pc = "fetching" THEN 1 ELSE 0)
        /\ feeLoops[l].pc \in {"fetching", "waiting"}

\* a fetchFee that is not the first of its loop starts 15000 ms after the one
\* before it has settled
AfterTheWait ==
    \A l \in DOMAIN feeLoops : \A i \in 2..Len(LoopFetches(l)) :
        /\ LoopFetches(l)[i - 1].st \in {"ok", "nofees", "failed"}
        /\ LoopFetches(l)[i].at = LoopFetches(l)[i - 1].doneAt + feeWait

\* the fetchFee calls settled are fewer than the fetchFee calls made, or the
\* bound on the calls is reached
Followed(n) ==
    \/ Len(feeFetches) >= MaxFetches
    \/ \A l \in DOMAIN feeLoops :
          Cardinality({k \in FetchesOf(l) : ~InFlight(k)}) >= n
              => Cardinality(FetchesOf(l)) > n

\* C27: a syncTxFee loop has at most one fetchFee in flight; a fetchFee that has
\* settled, with a fee, without one or with a failure, is followed 15000 ms
\* later by the next fetchFee of the loop
C27_LoopGoesOn ==
    /\ [](OneInFlight /\ AfterTheWait)
    /\ \A n \in 1..MaxFetches : []<>Followed(n)

\* a loop whose fetchFee failed and that has called fetchFee again
C27_Witness ==
    \E l \in DOMAIN feeLoops : \E i \in 2..Len(LoopFetches(l)) :
        /\ LoopFetches(l)[i - 1].st = "failed"
        /\ LoopFetches(l)[i].st = "ok"

\* C21 as claimed: the callback invocation that was handed the cached response of
\* a call does not set accountProvider once the invocation that was handed the
\* fresh response of the same call has set it
C21_FreshNotOverwritten ==
    [][\A i \in DOMAIN lookups :
          (lookups[i].st = "pending" /\ lookups'[i].st = "set"
              /\ lookups[i].from = "cache")
            => ~ \E j \in DOMAIN lookups :
                    /\ lookups[j].call = lookups[i].call
                    /\ lookups[j].from = "network"
                    /\ lookups[j].st = "set"
      ]_vars

\* the loadAccount calls of updateAccount that have not completed
LoadsInFlight ==
    {c \in CallIds : calls[c].owner = "provider" /\ calls[c].pc \notin {"done", "rejected"}}

\* C25 as claimed: isLoading is true exactly while a loadAccount call made by
\* updateAccount has not completed
C25_LoadingWhileInFlight == isLoading <=> LoadsInFlight # {}

\* the call of the run of currentAccount's callback made last
LastCurrentCall ==
    IF \E c \in CallIds : calls[c].owner = "current"
    THEN CHOOSE c \in CallIds :
            /\ calls[c].owner = "current"
            /\ \A d \in CallIds : calls[d].owner = "current" => d <= c
    ELSE 0

\* C22: while subscribed, currentAccount is null when there is no session; it
\* takes a new value only when the session becomes null, or when the loadAccount
\* call made for the active session, the last one made, delivers an account
C22_OnlyActiveSession ==
    /\ [](currentRun.subscribed /\ session = NoSession => currentAccount = Null)
    /\ [][currentAccount' # currentAccount =>
            \/ currentAccount' = Null /\ session' = NoSession
            \/ /\ LastCurrentCall # 0
               /\ currentRun.subscribed
               /\ calls[LastCurrentCall].name = session
               /\ session' = session
               /\ Len(calls'[LastCurrentCall].cbs) = Len(calls[LastCurrentCall].cbs) + 1
               /\ currentAccount' =
                     calls'[LastCurrentCall].cbs[Len(calls'[LastCurrentCall].cbs)].account
          ]_vars

\* a call made for an earlier session has delivered an account after the session
\* changed (it issued its request after the call made for the new session issued
\* its own, so it had delivered nothing before), and currentAccount has not taken it
C22_Witness ==
    \E c, d \in CallIds :
        /\ calls[c].owner = "current" /\ calls[d].owner = "current"
        /\ c < d
        /\ calls[d].req > 0 /\ calls[c].req > calls[d].req
        /\ calls[c].cbs # <<>>
        /\ calls[c].name # session
        /\ currentRun.subscribed
        /\ currentAccount # calls[c].cbs[Len(calls[c].cbs)].account

====
